---- MODULE Spec2Model ----
(***************************************************************************)
(* Model of geolibrary's repository layer (src/src/geolibrary/repository.py)*)
(* over the schema of src/src/geolibrary/models.py and                      *)
(* src/alembic/versions/001_initial_schema.py.                              *)
(*                                                                          *)
(* The store is the PostgreSQL database named by config.py: it enforces the *)
(* declared constraints (PRIMARY KEY, NOT NULL, UNIQUE name, FOREIGN KEY).  *)
(* Python values that may be None are boxed: <<v>> is the value v and <<>>  *)
(* is None.  Coordinates are integers in half degrees (40.5 degrees = 81),  *)
(* so that every product and quotient of the ray-casting test is exact.     *)
(***************************************************************************)
EXTENDS Integers, Sequences, FiniteSets, TLC

VARIABLES
    locations,     \* the committed rows of table "locations", in scan order
    photos,        \* the committed rows of table "photos" (a set)
    nextId,        \* next value of the sequence behind locations.id
    nextPhotoId,   \* next value of the sequence behind photos.id
    session,       \* state of the SQLAlchemy session the repository uses
    last,          \* the call the caller made last and what it got back
    polygon,       \* input of the geometry evaluator (SpecGeo)
    inside,        \* its results, one per test point (SpecGeo)
    own_session,   \* self._own_session
    held,          \* self._session: None, the caller's session (0) or the
                   \* k-th session of create_session() (k)
    created,       \* how many sessions create_session() has handed out
    open,          \* the sessions that are in use and not closed
    in_block,      \* the caller is inside `with repository:`
    calls,         \* what the repository's last step called on the Session
                   \* Provider and on its session, in order
    creating       \* the create_location calls that run at the same time on
                   \* sessions of their own (SpecRace): where each one is

vars == <<locations, photos, nextId, nextPhotoId, session, last, polygon, inside,
          own_session, held, created, open, in_block, calls, creating>>

unitVars == <<own_session, held, created, open, in_block, calls, creating>>

repoVars == <<locations, photos, nextId, nextPhotoId, session, last>>

geoVars == <<polygon, inside>>

-----------------------------------------------------------------------------
(* Bounds of the model. *)

\* ids the sequence of locations.id hands out: 1 .. MaxId
MaxId == 2

\* ids the sequence of photos.id hands out: 1 .. MaxPhotos
MaxPhotos == 2

\* longest polygon the geometry evaluator is given in SpecGeo
MaxVertices == 4

\* sessions create_session() hands out in SpecUnits: 1 .. MaxSessions
MaxSessions == 2

-----------------------------------------------------------------------------
(* Input domains. *)

None == <<>>

Some(v) == <<v>>

Names == {"A", "B", "C"}

Descriptions == {None, Some("d")}

Latitudes == {80, 82}

Longitudes == {-148}

Filenames == {"f.jpg"}

\* every id a caller passes: MaxId + 1 is never the id of a stored Location
Ids == 1 .. (MaxId + 1)

\* polygons a caller searches with: the two of the scenario of spec section 8
\* (in half degrees), a triangle, and the degenerate ones
PolygonBoth == <<<<78, -150>>, <<84, -150>>, <<84, -146>>, <<78, -146>>>>

PolygonOnlyA == <<<<78, -150>>, <<81, -150>>, <<81, -146>>, <<78, -146>>>>

SearchPolygons ==
    { PolygonBoth, PolygonOnlyA,
      <<<<78, -150>>, <<84, -150>>, <<84, -138>>>>,
      <<>>, <<<<78, -150>>>>, <<<<80, -148>>>>,
      <<<<78, -150>>, <<84, -146>>>>, <<<<80, -150>>, <<80, -146>>>>,
      <<<<78, -148>>, <<84, -148>>>> }

-----------------------------------------------------------------------------
(* Geometry evaluator: LocationRepository._is_point_in_polygon. *)

Min(a, b) == IF a <= b THEN a ELSE b

Max(a, b) == IF a >= b THEN a ELSE b

\* px <= xinters, where
\*   xinters = (py - p1y) * (p2x - p1x) / (p2y - p1y) + p1x    (p1y # p2y),
\* decided without the division: both sides are multiplied by p2y - p1y, and
\* the comparison turns when that is negative.
LeXinters(px, py, p1x, p1y, p2x, p2y) ==
    LET num == (py - p1y) * (p2x - p1x)
        den == p2y - p1y
    IN  IF den > 0 THEN (px - p1x) * den <= num
                   ELSE (px - p1x) * den >= num

\* faulty variant of EdgeToggles: the lower end of the edge counts as crossed
\* instead of the upper one (py >= min and py < max)
EdgeTogglesLowerClosed(point, p1, p2) ==
    LET px == point[1]
        py == point[2]
        p1x == p1[1]
        p1y == p1[2]
        p2x == p2[1]
        p2y == p2[2]
    IN  /\ p1y # p2y
        /\ py >= Min(p1y, p2y)
        /\ py < Max(p1y, p2y)
        /\ px <= Max(p1x, p2x)
        /\ \/ p1x = p2x
           \/ LeXinters(px, py, p1x, p1y, p2x, p2y)

\* the body of the for loop for the edge p1 -> p2: does it flip `inside`?
EdgeToggles(point, p1, p2) ==
    LET px == point[1]
        py == point[2]
        p1x == p1[1]
        p1y == p1[2]
        p2x == p2[1]
        p2y == p2[2]
    IN  /\ p1y # p2y
        /\ py > Min(p1y, p2y)
        /\ py <= Max(p1y, p2y)
        /\ px <= Max(p1x, p2x)
        /\ \/ p1x = p2x
           \/ LeXinters(px, py, p1x, p1y, p2x, p2y)

\* faulty variant of RayLoop: range(1, n), which leaves out the edge from the
\* last vertex back to the first
RECURSIVE RayLoopOpen(_, _, _, _)
RayLoopOpen(point, poly, i, flag) ==
    LET n == Len(poly)
    IN  IF i >= n THEN flag
        ELSE RayLoopOpen(point, poly, i + 1,
                         IF EdgeToggles(point, poly[i], poly[(i % n) + 1])
                         THEN ~flag ELSE flag)

\* the for loop, i = 1 .. n: p1 is polygon[i - 1] and p2 is polygon[i % n]
\* (0-based), which are poly[i] and poly[(i % n) + 1] here (1-based)
RECURSIVE RayLoop(_, _, _, _)
RayLoop(point, poly, i, flag) ==
    LET n == Len(poly)
    IN  IF i > n THEN flag
        ELSE RayLoop(point, poly, i + 1,
                     IF EdgeToggles(point, poly[i], poly[(i % n) + 1])
                     THEN ~flag ELSE flag)

\* faulty variant of is_point_in_polygon: the guard returns the wrong constant
is_point_in_polygon_guard_true(point, poly) ==
    IF Len(poly) < 3 THEN TRUE
    ELSE RayLoop(point, poly, 1, FALSE)

is_point_in_polygon(point, poly) ==
    IF Len(poly) < 3 THEN FALSE
    ELSE RayLoop(point, poly, 1, FALSE)

-----------------------------------------------------------------------------
(* The store: rows, queries and constraints. *)

Columns == {"id", "name", "description", "latitude", "longitude"}

\* faulty variant of Location: latitude and longitude are passed in each
\* other's place
LocationSwapped(id, name, description, latitude, longitude) ==
    [id |-> id, name |-> name, description |-> description,
     latitude |-> longitude, longitude |-> latitude]

\* a row of "locations"; description is nullable and kept boxed
Location(id, name, description, latitude, longitude) ==
    [id |-> id, name |-> name, description |-> description,
     latitude |-> latitude, longitude |-> longitude]

Photo(id, filename, location_id) ==
    [id |-> id, filename |-> filename, location_id |-> location_id]

\* session.scalar(stmt): the first row of the result, or None
Scalar(rows) == IF rows = <<>> THEN None ELSE Some(Head(rows))

\* faulty variant of SelectById: the statement has no where clause
SelectAnyId(rows, location_id) == rows

\* select(Location).where(Location.id == location_id)
SelectById(rows, location_id) ==
    LET Test(r) == r.id = location_id IN SelectSeq(rows, Test)

\* faulty variant of SelectByName: the statement filters on the wrong column
SelectByDescription(rows, name) ==
    LET Test(r) == r.description = name IN SelectSeq(rows, Test)

\* select(Location).where(Location.name == name); name is boxed, and
\* comparing with None selects nothing (the column is NOT NULL)
SelectByName(rows, name) ==
    LET Test(r) == Some(r.name) = name IN SelectSeq(rows, Test)

\* faulty variant of PhotosOf: the relationship does not cascade, and a
\* delete finds no photos to remove
PhotosOfNoCascade(location_id) == {}

\* the photos a Location owns (relationship Location.photos)
PhotosOf(location_id) == {p \in photos : p.location_id = location_id}

Idle == [op |-> "idle"]

\* the caller is between two calls and its session accepts statements
Ready == last = Idle /\ session = "active"

\* what the caller holds after a call: its arguments, the exception raised
\* ("" when none), the value returned, and the tables as they were before
Returned(op, args, raised, ret) ==
    last' = [op |-> op, args |-> args, raised |-> raised, ret |-> ret,
             pre_locations |-> locations, pre_photos |-> photos]

-----------------------------------------------------------------------------
(* update_location's keyword arguments. *)

\* the keys callers pass: the four documented fields and a name that is no
\* attribute of Location
KwargKeys == {"name", "description", "latitude", "longitude", "color"}

\* the values of each key (kwargs: str | float | None)
KwargValues(key) ==
    CASE key = "name" -> {Some(n) : n \in Names} \cup {None}
      [] key = "description" -> Descriptions
      [] key = "latitude" -> {Some(v) : v \in Latitudes}
      [] key = "longitude" -> {Some(v) : v \in Longitudes}
      [] OTHER -> {Some("red")}

\* a key's part of a call: <<>> when the key is not passed, <<value>> when it is
KwargOptions(key) == {<<>>} \cup {<<v>> : v \in KwargValues(key)}

\* the kwargs dict of a call, from each key's part
MakeKwargs(name, description, latitude, longitude, color) ==
    LET given == [name |-> name, description |-> description,
                  latitude |-> latitude, longitude |-> longitude, color |-> color]
    IN  [k \in {key \in KwargKeys : given[key] # <<>>} |-> given[k][1]]

\* hasattr(location, key), for the keys above
HasAttr(key) == key \in Columns

\* a stored row with every column boxed
Boxed(row) ==
    [id |-> Some(row.id), name |-> Some(row.name),
     description |-> row.description,
     latitude |-> Some(row.latitude), longitude |-> Some(row.longitude)]

\* faulty variant of SetAttrs: a full replace, which resets the description
\* when it is not passed
SetAttrsFullReplace(row, kwargs) ==
    [c \in Columns |->
        IF c \in DOMAIN kwargs /\ HasAttr(c) THEN kwargs[c]
        ELSE IF c = "description" THEN None ELSE Boxed(row)[c]]

\* the loop `for key, value in kwargs.items(): if hasattr(...): setattr(...)`:
\* the attributes of `location` after it, boxed
SetAttrs(row, kwargs) ==
    [c \in Columns |->
        IF c \in DOMAIN kwargs /\ HasAttr(c) THEN kwargs[c] ELSE Boxed(row)[c]]

\* the row an UPDATE writes from the attributes
Unboxed(attrs) ==
    Location(attrs.id[1], attrs.name[1], attrs.description,
             attrs.latitude[1], attrs.longitude[1])

\* the constraint the UPDATE of `row` to `attrs` violates at commit, if any:
\* NOT NULL columns, the primary key, the unique index on name, and the
\* foreign key of the photos that reference the row's id
UpdateViolates(row, attrs) ==
    \/ attrs.id = None \/ attrs.name = None
    \/ attrs.latitude = None \/ attrs.longitude = None
    \/ \E i \in 1 .. Len(locations) :
          /\ locations[i] # row
          /\ \/ Some(locations[i].id) = attrs.id
             \/ Some(locations[i].name) = attrs.name
    \/ attrs.id # Some(row.id) /\ PhotosOf(row.id) # {}

\* the constraint the INSERT of `row` violates at commit, if any: the primary
\* key or the unique index on name
InsertViolates(row) ==
    \E i \in 1 .. Len(locations) :
        locations[i].id = row.id \/ locations[i].name = row.name

\* faulty variant of NameTaken: the name is looked up even when it is the
\* Location's own
NameTakenEvenOwn(row, kwargs) ==
    /\ "name" \in DOMAIN kwargs
    /\ Scalar(SelectByName(locations, kwargs["name"])) # None

\* update_location's uniqueness check: name is being changed, and a Location
\* with the new name exists
NameTaken(row, kwargs) ==
    /\ "name" \in DOMAIN kwargs
    /\ kwargs["name"] # Some(row.name)
    /\ Scalar(SelectByName(locations, kwargs["name"])) # None

\* faulty variant of Replaced: the new version of the row is added and the
\* old one stays
ReplacedKeepingOld(rows, old, new, moved) == Append(rows, new)

\* the table after the UPDATE: the new version of the row takes the old one's
\* place in the scan order or, the heap having moved it, comes last
Replaced(rows, old, new, moved) ==
    LET Keep(r) == r # old
        Swap == [i \in 1 .. Len(rows) |-> IF rows[i] = old THEN new ELSE rows[i]]
    IN  IF moved THEN Append(SelectSeq(rows, Keep), new) ELSE Swap

-----------------------------------------------------------------------------
(* LocationRepository's operations.  Each is one call on a usable session;  *)
(* a commit that fails leaves the tables as they were and the session       *)
(* inactive until it is rolled back.                                        *)

create_location(name, latitude, longitude, description) ==
    LET args == [name |-> name, latitude |-> latitude,
                 longitude |-> longitude, description |-> description]
        existing == Scalar(SelectByName(locations, Some(name)))
        location == Location(nextId, name, description, latitude, longitude)
    IN  /\ Ready
        /\ IF existing # None
           THEN /\ Returned("create_location", args, "ValueError", None)
                /\ UNCHANGED <<locations, photos, nextId, nextPhotoId, session>>
           ELSE /\ nextId <= MaxId
                /\ nextId' = nextId + 1
                /\ IF InsertViolates(location)
                   THEN /\ Returned("create_location", args, "IntegrityError", None)
                        /\ session' = "deactive"
                        /\ UNCHANGED <<locations, photos, nextPhotoId>>
                   ELSE /\ locations' = Append(locations, location)
                        /\ Returned("create_location", args, "", Some(location))
                        /\ UNCHANGED <<photos, nextPhotoId, session>>
        /\ UNCHANGED geoVars

get_location_by_id(location_id) ==
    /\ Ready
    /\ Returned("get_location_by_id", [location_id |-> location_id], "",
                Scalar(SelectById(locations, location_id)))
    /\ UNCHANGED <<locations, photos, nextId, nextPhotoId, session>>
    /\ UNCHANGED geoVars

get_location_by_name(name) ==
    /\ Ready
    /\ Returned("get_location_by_name", [name |-> name], "",
                Scalar(SelectByName(locations, Some(name))))
    /\ UNCHANGED <<locations, photos, nextId, nextPhotoId, session>>
    /\ UNCHANGED geoVars

update_location(location_id, kwargs) ==
    LET args == [location_id |-> location_id, kwargs |-> kwargs]
        location == Scalar(SelectById(locations, location_id))
    IN  /\ Ready
        /\ IF location = None
           THEN /\ Returned("update_location", args, "", None)
                /\ UNCHANGED <<locations, photos, nextId, nextPhotoId, session>>
           ELSE LET row == location[1]
                    attrs == SetAttrs(row, kwargs)
                IN  IF NameTaken(row, kwargs)
                    THEN /\ Returned("update_location", args, "ValueError", None)
                         /\ UNCHANGED <<locations, photos, nextId, nextPhotoId, session>>
                    ELSE IF UpdateViolates(row, attrs)
                    THEN /\ Returned("update_location", args, "IntegrityError", None)
                         /\ session' = "deactive"
                         /\ UNCHANGED <<locations, photos, nextId, nextPhotoId>>
                    ELSE /\ \E moved \in {FALSE} \cup {Unboxed(attrs) # row} :
                               locations' = Replaced(locations, row, Unboxed(attrs), moved)
                         /\ Returned("update_location", args, "", Some(Unboxed(attrs)))
                         /\ UNCHANGED <<photos, nextId, nextPhotoId, session>>
        /\ UNCHANGED geoVars

delete_location(location_id) ==
    LET args == [location_id |-> location_id]
        location == Scalar(SelectById(locations, location_id))
        Keep(r) == r.id # location_id
    IN  /\ Ready
        /\ IF location = None
           THEN /\ Returned("delete_location", args, "", FALSE)
                /\ UNCHANGED <<locations, photos>>
           ELSE /\ locations' = SelectSeq(locations, Keep)
                /\ photos' = photos \ PhotosOf(location_id)
                /\ Returned("delete_location", args, "", TRUE)
        /\ UNCHANGED <<nextId, nextPhotoId, session>>
        /\ UNCHANGED geoVars

list_locations ==
    /\ Ready
    /\ Returned("list_locations", <<>>, "", locations)
    /\ UNCHANGED <<locations, photos, nextId, nextPhotoId, session>>
    /\ UNCHANGED geoVars

\* faulty variant of FilteredLocations: the point is passed as
\* (longitude, latitude)
FilteredLocationsSwapped(all_locations, polygon_points) ==
    LET Test(loc) ==
            is_point_in_polygon(<<loc.longitude, loc.latitude>>, polygon_points)
    IN  SelectSeq(all_locations, Test)

\* the list comprehension: the rows of all_locations the polygon contains
FilteredLocations(all_locations, polygon_points) ==
    LET Test(loc) ==
            is_point_in_polygon(<<loc.latitude, loc.longitude>>, polygon_points)
    IN  SelectSeq(all_locations, Test)

get_locations_in_perimeter(polygon_points) ==
    LET all_locations == locations
    IN  /\ Ready
        /\ Returned("get_locations_in_perimeter",
                    [polygon_points |-> polygon_points], "",
                    FilteredLocations(all_locations, polygon_points))
        /\ UNCHANGED <<locations, photos, nextId, nextPhotoId, session>>
        /\ UNCHANGED geoVars

\* A caller of the session attaches a Photo to a location id and commits
\* (the repository has no operation that creates photos).
add_photo(location_id, filename) ==
    LET args == [location_id |-> location_id, filename |-> filename]
    IN  /\ Ready
        /\ nextPhotoId <= MaxPhotos
        /\ nextPhotoId' = nextPhotoId + 1
        /\ IF SelectById(locations, location_id) = <<>>
           THEN /\ Returned("add_photo", args, "IntegrityError", None)
                /\ session' = "deactive"
                /\ UNCHANGED photos
           ELSE /\ photos' = photos \cup {Photo(nextPhotoId, filename, location_id)}
                /\ Returned("add_photo", args, "", None)
                /\ UNCHANGED session
        /\ UNCHANGED <<locations, nextId>>
        /\ UNCHANGED geoVars

\* The caller ends a unit of work that raised: session.rollback().
rollback ==
    /\ last # Idle
    /\ last.raised # ""
    /\ session' = "active"
    /\ last' = Idle
    /\ UNCHANGED <<locations, photos, nextId, nextPhotoId>>
    /\ UNCHANGED geoVars

\* The caller is done with the result and goes on to its next call.
CallerContinues ==
    /\ last # Idle
    /\ session = "active"
    /\ last' = Idle
    /\ UNCHANGED <<locations, photos, nextId, nextPhotoId, session>>
    /\ UNCHANGED geoVars

-----------------------------------------------------------------------------
(* Specification of the repository: one caller, one call at a time. *)

\* LocationRepository(session): the repository holds the caller's session
SessionSupplied ==
    /\ own_session = FALSE
    /\ held = Some(0)
    /\ created = 0
    /\ open = {0}
    /\ in_block = FALSE
    /\ calls = <<>>
    /\ creating = <<>>

Init ==
    /\ locations = <<>>
    /\ photos = {}
    /\ nextId = 1
    /\ nextPhotoId = 1
    /\ session = "active"
    /\ last = Idle
    /\ polygon = <<>>
    /\ inside = <<>>
    /\ SessionSupplied

Next ==
    \/ Ready /\ UNCHANGED unitVars /\ \E name \in Names, latitude \in Latitudes, longitude \in Longitudes,
          description \in Descriptions :
          create_location(name, latitude, longitude, description)
    \/ Ready /\ UNCHANGED unitVars /\ \E location_id \in Ids : get_location_by_id(location_id)
    \/ Ready /\ UNCHANGED unitVars /\ \E name \in Names : get_location_by_name(name)
    \/ Ready /\ UNCHANGED unitVars /\ \E location_id \in Ids,
          name \in KwargOptions("name"), description \in KwargOptions("description"),
          latitude \in KwargOptions("latitude"), longitude \in KwargOptions("longitude") :
          update_location(location_id,
                          MakeKwargs(name, description, latitude, longitude, <<>>))
    \/ Ready /\ UNCHANGED unitVars /\ \E location_id \in Ids : delete_location(location_id)
    \/ Ready /\ UNCHANGED unitVars /\ list_locations
    \/ Ready /\ UNCHANGED unitVars /\ \E polygon_points \in SearchPolygons : get_locations_in_perimeter(polygon_points)
    \/ rollback /\ UNCHANGED unitVars
    \/ CallerContinues /\ UNCHANGED unitVars

Spec == Init /\ [][Next]_vars

-----------------------------------------------------------------------------
(* Specification of the repository with photos: the same operations, and a  *)
(* caller that attaches photos; locations differ by id and name only.       *)

FewNames == {"A", "B"}

NextPhotos ==
    \/ Ready /\ UNCHANGED unitVars /\ \E name \in FewNames : create_location(name, 80, -148, None)
    \/ Ready /\ UNCHANGED unitVars /\ \E location_id \in Ids : get_location_by_id(location_id)
    \/ Ready /\ UNCHANGED unitVars /\ \E name \in FewNames : get_location_by_name(name)
    \/ Ready /\ UNCHANGED unitVars /\ \E location_id \in Ids,
          name \in KwargOptions("name"), color \in KwargOptions("color") :
          update_location(location_id, MakeKwargs(name, <<>>, <<>>, <<>>, color))
    \/ Ready /\ UNCHANGED unitVars /\ \E location_id \in Ids : delete_location(location_id)
    \/ Ready /\ UNCHANGED unitVars /\ list_locations
    \/ Ready /\ UNCHANGED unitVars /\ \E polygon_points \in SearchPolygons : get_locations_in_perimeter(polygon_points)
    \/ Ready /\ UNCHANGED unitVars /\ \E location_id \in Ids, filename \in Filenames : add_photo(location_id, filename)
    \/ rollback /\ UNCHANGED unitVars
    \/ CallerContinues /\ UNCHANGED unitVars

SpecPhotos == Init /\ [][NextPhotos]_vars

-----------------------------------------------------------------------------
(* Specification of the repository with callers that pass any attribute of  *)
(* Location to update_location: **kwargs takes every key, "id" included.    *)

\* the "id" part of a call: not passed, an integer, or None
IdOptions == {<<>>} \cup {<<Some(v)>> : v \in Ids} \cup {<<None>>}

\* kwargs with the "id" part added
WithIdKwarg(kwargs, id) ==
    IF id = <<>> THEN kwargs
    ELSE [k \in DOMAIN kwargs \cup {"id"} |-> IF k = "id" THEN id[1] ELSE kwargs[k]]

NextIds ==
    \/ Ready /\ UNCHANGED unitVars /\ \E name \in FewNames : create_location(name, 80, -148, None)
    \/ Ready /\ UNCHANGED unitVars /\ \E location_id \in Ids : get_location_by_id(location_id)
    \/ Ready /\ UNCHANGED unitVars /\ \E location_id \in Ids, id \in IdOptions, name \in KwargOptions("name") :
          update_location(location_id,
                          WithIdKwarg(MakeKwargs(name, <<>>, <<>>, <<>>, <<>>), id))
    \/ Ready /\ UNCHANGED unitVars /\ \E location_id \in Ids : delete_location(location_id)
    \/ Ready /\ UNCHANGED unitVars /\ \E location_id \in Ids, filename \in Filenames : add_photo(location_id, filename)
    \/ rollback /\ UNCHANGED unitVars
    \/ CallerContinues /\ UNCHANGED unitVars

SpecIds == Init /\ [][NextIds]_vars

-----------------------------------------------------------------------------
(* Specification of the repository's units of work: the repository is built *)
(* with or without a session, its caller enters and leaves the scoped block *)
(* and calls the operations inside or outside it, and may handle an         *)
(* exception without rolling the session back.                              *)

\* a call of the repository on the Session Provider or on its session, with
\* the session the repository held when it made the call
Called(call, holding) == [call |-> call, holding |-> holding]

\* did the operation reach its session.commit()?
Commits(call) ==
    CASE call.op = "create_location" -> call.raised # "ValueError"
      [] call.op = "update_location" ->
            call.raised = "IntegrityError" \/ (call.raised = "" /\ call.ret # None)
      [] call.op = "delete_location" -> call.ret = TRUE
      [] OTHER -> FALSE

\* _get_session(): the session held, or a new one of create_session() that
\* the repository holds from then on
_get_session ==
    IF held = None
    THEN /\ created < MaxSessions
         /\ created' = created + 1
         /\ held' = Some(created + 1)
         /\ open' = open \cup {created + 1}
    ELSE /\ UNCHANGED <<created, held>>
         /\ open' = open \cup {held[1]}

\* an operation called on the repository: _get_session(), then the operation
\* on that session, its commit included
InSession(Operation) ==
    /\ _get_session
    /\ Operation
    /\ calls' = (IF held = None THEN <<Called("create_session", held)>> ELSE <<>>)
                \o (IF Commits(last') THEN <<Called("commit", held')>> ELSE <<>>)
    /\ UNCHANGED <<own_session, in_block, creating>>

\* an operation called while the session is inactive after a failed commit:
\* its first statement raises PendingRollbackError
pending_rollback(op, args) ==
    /\ last = Idle
    /\ session = "deactive"
    /\ Returned(op, args, "PendingRollbackError", None)
    /\ calls' = <<>>
    /\ UNCHANGED <<locations, photos, nextId, nextPhotoId, session>>
    /\ UNCHANGED <<own_session, held, created, open, in_block, creating>>
    /\ UNCHANGED geoVars

__enter__ ==
    /\ last = Idle
    /\ ~in_block
    /\ in_block' = TRUE
    /\ IF own_session
       THEN /\ created < MaxSessions
            /\ created' = created + 1
            /\ held' = Some(created + 1)
            /\ open' = open \cup {created + 1}
            /\ session' = "active"
            /\ calls' = <<Called("create_session", held)>>
       ELSE /\ calls' = <<>>
            /\ UNCHANGED <<created, held, open, session>>
    /\ UNCHANGED <<own_session, locations, photos, nextId, nextPhotoId, last, creating>>
    /\ UNCHANGED geoVars

\* __exit__(exc_type, ...): exc is `exc_type is not None`, the exception of
\* the caller's last call leaving the block; it goes on to the caller.  The
\* commit of an inactive session raises, and the close after it is not made.
__exit__(exc) ==
    /\ in_block
    /\ IF exc THEN last # Idle /\ last.raised # "" ELSE last = Idle
    /\ in_block' = FALSE
    /\ IF own_session /\ held # None
       THEN IF ~exc
            THEN IF session = "deactive"
                 THEN /\ Returned("__exit__", <<>>, "PendingRollbackError", None)
                      /\ calls' = <<Called("commit", held)>>
                      /\ UNCHANGED <<session, open>>
                 ELSE /\ calls' = <<Called("commit", held), Called("close", held)>>
                      /\ open' = open \ {held[1]}
                      /\ UNCHANGED <<session, last>>
            ELSE /\ calls' = <<Called("rollback", held), Called("close", held)>>
                 /\ session' = "active"
                 /\ open' = open \ {held[1]}
                 /\ UNCHANGED last
       ELSE /\ calls' = <<>>
            /\ UNCHANGED <<session, open, last>>
    /\ UNCHANGED <<own_session, held, created, locations, photos, nextId, nextPhotoId, creating>>
    /\ UNCHANGED geoVars

\* The caller handles the exception of its last call and goes on, without
\* rolling the session back.
CallerCatches ==
    /\ last # Idle
    /\ last.raised # ""
    /\ last' = Idle
    /\ UNCHANGED <<locations, photos, nextId, nextPhotoId, session>>
    /\ UNCHANGED unitVars
    /\ UNCHANGED geoVars

\* the operations and arguments of calls made on an inactive session
InactiveCalls ==
    {<<"get_location_by_id", [location_id |-> location_id]>> : location_id \in Ids}
    \cup {<<"list_locations", <<>>>>}
    \cup {<<"delete_location", [location_id |-> location_id]>> : location_id \in Ids}

\* LocationRepository() or LocationRepository(session)
InitUnits ==
    /\ locations = <<>>
    /\ photos = {}
    /\ nextId = 1
    /\ nextPhotoId = 1
    /\ session = "active"
    /\ last = Idle
    /\ polygon = <<>>
    /\ inside = <<>>
    /\ own_session \in BOOLEAN
    /\ held = IF own_session THEN None ELSE Some(0)
    /\ created = 0
    /\ open = IF own_session THEN {} ELSE {0}
    /\ in_block = FALSE
    /\ calls = <<>>
    /\ creating = <<>>

NextUnits ==
    \/ __enter__
    \/ \E exc \in BOOLEAN : __exit__(exc)
    \/ Ready /\ \E name \in FewNames : InSession(create_location(name, 80, -148, None))
    \/ Ready /\ \E location_id \in Ids : InSession(get_location_by_id(location_id))
    \/ Ready /\ \E name \in FewNames : InSession(get_location_by_name(name))
    \/ Ready /\ \E location_id \in Ids, name \in KwargOptions("name") :
          InSession(update_location(location_id, MakeKwargs(name, <<>>, <<>>, <<>>, <<>>)))
    \/ Ready /\ \E location_id \in Ids : InSession(delete_location(location_id))
    \/ Ready /\ InSession(list_locations)
    \/ Ready /\ InSession(get_locations_in_perimeter(PolygonBoth))
    \/ \E call \in InactiveCalls : pending_rollback(call[1], call[2])
    \/ ~own_session /\ rollback /\ UNCHANGED unitVars
    \/ CallerContinues /\ UNCHANGED unitVars
    \/ CallerCatches

SpecUnits == InitUnits /\ [][NextUnits]_vars

-----------------------------------------------------------------------------
(* Specification of two create_location calls that run at the same time,    *)
(* each on a repository and session of its own, against the PostgreSQL      *)
(* store (READ COMMITTED): a select sees committed rows only, the INSERT of *)
(* a name that another open transaction has inserted waits for that         *)
(* transaction to end, and the unique index on name rejects a duplicate.    *)

Procs == {1, 2}

\* a call that has not started
Starting(name) ==
    [pc |-> "check", name |-> name, existing |-> None, location |-> None,
     raised |-> "", ret |-> None]

\* the call p moves on
Moves(p, call) == creating' = [creating EXCEPT ![p] = call]

\* the row another call has inserted and not yet committed, with this name
InsertedBy(others, name) ==
    {q \in others : /\ creating[q].pc = "commit"
                    /\ creating[q].location[1].name = name}

\* faulty variant of UniqueViolation: the index on name is not unique
NoUniqueIndex(rows, name) == FALSE

\* the unique index ix_locations_name: a committed row has the name
UniqueViolation(rows, name) == SelectByName(rows, Some(name)) # <<>>

\* the frame of a step of a concurrent call
raceFrame ==
    <<photos, nextPhotoId, session, last, polygon, inside,
      own_session, held, created, open, in_block, calls>>

\* existing = session.scalar(select ... where name == name); raise if found
create_check(p) ==
    LET call == creating[p]
        existing == Scalar(SelectByName(locations, Some(call.name)))
    IN  /\ call.pc = "check"
        /\ IF existing # None
           THEN Moves(p, [call EXCEPT !.pc = "done", !.existing = existing,
                                      !.raised = "ValueError"])
           ELSE Moves(p, [call EXCEPT !.pc = "flush"])
        /\ UNCHANGED <<locations, nextId>>
        /\ UNCHANGED raceFrame

\* the INSERT against the index: rejected, or done and awaiting COMMIT
Inserted(p, call) ==
    IF UniqueViolation(locations, call.name)
    THEN Moves(p, [call EXCEPT !.pc = "done", !.location = None,
                               !.raised = "IntegrityError"])
    ELSE Moves(p, [call EXCEPT !.pc = "commit"])

\* session.add(location); session.commit(), first part: the flush sends the
\* INSERT, which takes the next id of the sequence and then meets the index
create_flush(p) ==
    LET call == [creating[p] EXCEPT
                    !.location = Some(Location(nextId, creating[p].name, None, 80, -148))]
    IN  /\ creating[p].pc = "flush"
        /\ nextId' = nextId + 1
        /\ IF InsertedBy(Procs \ {p}, call.name) # {}
           THEN Moves(p, [call EXCEPT !.pc = "waiting"])
           ELSE Inserted(p, call)
        /\ UNCHANGED locations
        /\ UNCHANGED raceFrame

\* the INSERT that waited goes on when the other transaction has ended
create_resume(p) ==
    /\ creating[p].pc = "waiting"
    /\ InsertedBy(Procs \ {p}, creating[p].name) = {}
    /\ Inserted(p, creating[p])
    /\ UNCHANGED <<locations, nextId>>
    /\ UNCHANGED raceFrame

\* session.commit(), second part: COMMIT makes the row visible
create_commit(p) ==
    /\ creating[p].pc = "commit"
    /\ locations' = Append(locations, creating[p].location[1])
    /\ Moves(p, [creating[p] EXCEPT !.pc = "refresh"])
    /\ UNCHANGED nextId
    /\ UNCHANGED raceFrame

\* session.refresh(location); return location
create_return(p) ==
    LET call == creating[p]
    IN  /\ call.pc = "refresh"
        /\ Moves(p, [call EXCEPT !.pc = "done",
                                 !.ret = Scalar(SelectById(locations, call.location[1].id))])
        /\ UNCHANGED <<locations, nextId>>
        /\ UNCHANGED raceFrame

InitRace ==
    /\ locations = <<>>
    /\ photos = {}
    /\ nextId = 1
    /\ nextPhotoId = 1
    /\ session = "active"
    /\ last = Idle
    /\ polygon = <<>>
    /\ inside = <<>>
    /\ own_session = TRUE
    /\ held = None
    /\ created = 0
    /\ open = {}
    /\ in_block = FALSE
    /\ calls = <<>>
    /\ creating \in [Procs -> {Starting(name) : name \in FewNames}]

NextRace ==
    \E p \in Procs :
        \/ create_check(p)
        \/ create_flush(p)
        \/ create_resume(p)
        \/ create_commit(p)
        \/ create_return(p)

SpecRace == InitRace /\ [][NextRace]_vars

-----------------------------------------------------------------------------
(* Specification of the geometry evaluator alone: a polygon is drawn, and   *)
(* the evaluator is applied to it and each test point.                      *)

\* polygon vertices lie on even coordinates, so that test points fall
\* strictly between them as well as on them
GeoVertices == {0, 2, 4} \X {0, 2, 4}

\* the square of spec section 8
ExampleSquare == <<<<0, 0>>, <<0, 10>>, <<10, 10>>, <<10, 0>>>>

GeoPolygons ==
    UNION {[1 .. n -> GeoVertices] : n \in 0 .. MaxVertices} \cup {ExampleSquare}

GeoPoints == ((-1 .. 5) \X (-1 .. 5)) \cup {<<20, 20>>}

InitGeo ==
    /\ locations = <<>>
    /\ photos = {}
    /\ nextId = 1
    /\ nextPhotoId = 1
    /\ session = "active"
    /\ last = Idle
    /\ polygon \in GeoPolygons
    /\ inside = <<>>
    /\ SessionSupplied

contains ==
    /\ DOMAIN inside = {}
    /\ inside' = [point \in GeoPoints |-> is_point_in_polygon(point, polygon)]
    /\ UNCHANGED polygon
    /\ UNCHANGED repoVars
    /\ UNCHANGED unitVars

NextGeo == contains

SpecGeo == InitGeo /\ [][NextGeo]_vars

-----------------------------------------------------------------------------
(* Properties. *)

\* the rows of a table, as a set
Rows(table) == {table[i] : i \in 1 .. Len(table)}

\* the rows of a table that have the given id, or the given name
WithId(table, id) == {r \in Rows(table) : r.id = id}

WithName(table, name) == {r \in Rows(table) : r.name = name}

\* the call left both tables as they were
StoreUnchanged == locations = last.pre_locations /\ photos = last.pre_photos

\* C1: create_location with a name that a stored Location already holds
\* raises ValueError (the spec's DuplicateNameError), whatever the latitude,
\* longitude and description, and leaves the stored Locations as they were.
C1_DuplicateCreateFails ==
    (/\ last.op = "create_location"
     /\ WithName(last.pre_locations, last.args.name) # {})
    => (last.raised = "ValueError" /\ StoreUnchanged)

\* a create_location was refused for a name held by a Location that differs
\* from the arguments in latitude and description
C1_Witness ==
    /\ last.op = "create_location"
    /\ last.raised = "ValueError"
    /\ \E r \in WithName(locations, last.args.name) :
          /\ r.latitude # last.args.latitude
          /\ r.description # last.args.description

\* C2: create_location with a name not yet stored returns a Location with an
\* id, and the lookups by that id and by that name, made on the store as the
\* call left it, both return a Location with that id and with the name,
\* latitude, longitude and description of the call (None stays None).
C2_CreateRoundTrip ==
    (/\ last.op = "create_location"
     /\ WithName(last.pre_locations, last.args.name) = {})
    => /\ last.raised = ""
       /\ last.ret # None
       /\ last.ret[1].id \in 1 .. MaxId
       /\ \A fetched \in {Scalar(SelectById(locations, last.ret[1].id)),
                          Scalar(SelectByName(locations, Some(last.args.name)))} :
             /\ fetched # None
             /\ fetched[1].id = last.ret[1].id
             /\ fetched[1].name = last.args.name
             /\ fetched[1].latitude = last.args.latitude
             /\ fetched[1].longitude = last.args.longitude
             /\ fetched[1].description = last.args.description

\* a Location was created without a description next to another Location,
\* and one was created with a description
C2_Witness ==
    /\ last.op = "create_location"
    /\ last.raised = ""
    /\ last.args.description = None
    /\ Len(locations) = 2
    /\ \E r \in Rows(locations) : r.description # None

\* C3: no two stored Locations have the same name, after any sequence of
\* calls, failed ones included.
C3_UniqueNames ==
    \A i, j \in 1 .. Len(locations) :
        i # j => locations[i].name # locations[j].name

\* two Locations are stored and a rename of one to the other's name was
\* just refused
C3_Witness ==
    /\ last.op = "update_location"
    /\ last.raised = "ValueError"
    /\ Len(locations) = 2

\* the fields a partial update may carry
Fields == {"name", "description", "latitude", "longitude"}

\* the value of a field of a row, boxed as kwargs carries it
FieldOf(row, field) ==
    IF field = "description" THEN row.description ELSE Some(row[field])

\* C4: update_location of a stored Location with a name that differs from
\* its own and is the name of another stored Location raises ValueError and
\* changes no field of any stored Location, whatever else was passed; with
\* the Location's own name the call raises nothing and returns the Location.
C4_RenameToTakenNameFails ==
    (/\ last.op = "update_location"
     /\ "name" \in DOMAIN last.args.kwargs)
    => \A row \in WithId(last.pre_locations, last.args.location_id) :
          /\ (/\ last.args.kwargs["name"] # Some(row.name)
              /\ \E other \in Rows(last.pre_locations) :
                    Some(other.name) = last.args.kwargs["name"])
             => (last.raised = "ValueError" /\ StoreUnchanged)
          /\ last.args.kwargs["name"] = Some(row.name)
             => /\ last.raised = ""
                /\ last.ret # None
                /\ last.ret[1].id = row.id
                /\ last.ret[1].name = row.name

\* a rename to another Location's name was refused in a call that also
\* passed a new latitude and a new description
C4_Witness ==
    /\ last.op = "update_location"
    /\ last.raised = "ValueError"
    /\ {"name", "latitude", "description"} \subseteq DOMAIN last.args.kwargs
    /\ \E row \in WithId(locations, last.args.location_id) :
          /\ Some(row.latitude) # last.args.kwargs["latitude"]
          /\ row.description # last.args.kwargs["description"]

\* C5: a successful update_location gives the Location with that id the
\* passed value in every field that was passed, keeps its value in every
\* field that was not, and leaves every other Location, and the photos, as
\* they were.
C5_PartialUpdate ==
    (/\ last.op = "update_location"
     /\ last.raised = ""
     /\ last.ret # None)
    => /\ \E old \in WithId(last.pre_locations, last.args.location_id) :
             LET new == last.ret[1]
             IN  /\ WithId(locations, last.args.location_id) = {new}
                 /\ \A field \in Fields :
                       IF field \in DOMAIN last.args.kwargs
                       THEN FieldOf(new, field) = last.args.kwargs[field]
                       ELSE new[field] = old[field]
                 /\ Rows(locations) \ {new} = Rows(last.pre_locations) \ {old}
       /\ Len(locations) = Len(last.pre_locations)
       /\ photos = last.pre_photos

\* only the description of one of two Locations was updated, to a new value
C5_Witness ==
    /\ last.op = "update_location"
    /\ last.raised = ""
    /\ DOMAIN last.args.kwargs = {"description"}
    /\ Len(locations) = 2
    /\ \E old \in WithId(last.pre_locations, last.args.location_id) :
          old.description # last.args.kwargs["description"]

\* C6: for an id that no stored Location has, get_location_by_id and
\* update_location (with any kwargs) return None and delete_location returns
\* False; none raises, and none changes the stored Locations or Photos.
C6_MissingIdIsAbsence ==
    (/\ last.op \in {"get_location_by_id", "update_location", "delete_location"}
     /\ WithId(last.pre_locations, last.args.location_id) = {})
    => /\ last.raised = ""
       /\ last.ret = IF last.op = "delete_location" THEN FALSE ELSE None
       /\ StoreUnchanged

\* delete_location returned False for an id that was assigned and has been
\* deleted, while another Location and its photo are stored
C6_Witness ==
    /\ last.op = "delete_location"
    /\ last.ret = FALSE
    /\ last.args.location_id < nextId
    /\ locations # <<>>
    /\ photos # {}

\* C7: delete_location of a stored Location returns True and removes that
\* Location and all of its Photos, and nothing else; and in every reachable
\* store each Photo's location_id is the id of a stored Location.
C7_DeleteCascades ==
    /\ (/\ last.op = "delete_location"
        /\ WithId(last.pre_locations, last.args.location_id) # {})
       => /\ last.raised = ""
          /\ last.ret = TRUE
          /\ Rows(locations) =
                Rows(last.pre_locations) \ WithId(last.pre_locations, last.args.location_id)
          /\ Len(locations) = Len(last.pre_locations) - 1
          /\ photos =
                {p \in last.pre_photos : p.location_id # last.args.location_id}
    /\ \A p \in photos : WithId(locations, p.location_id) # {}

\* a Location with two Photos was deleted, and another Location stays
C7_Witness ==
    /\ last.op = "delete_location"
    /\ last.ret = TRUE
    /\ Cardinality(last.pre_photos) = 2
    /\ photos = {}
    /\ locations # <<>>

\* the place of a row in a table (rows differ by id)
Position(table, row) == CHOOSE i \in 1 .. Len(table) : table[i] = row

\* the point of a Location that the search tests
PointOf(row) == <<row.latitude, row.longitude>>

\* C8: get_locations_in_perimeter returns exactly the stored Locations whose
\* (latitude, longitude) the evaluator finds in the polygon, each once and in
\* the order of the scan, and leaves the store unchanged; for Locations at
\* (40, -74) and (41, -74) the first polygon of spec section 8 returns both
\* and the second only the one at (40, -74)  (80, 82, -148 in half degrees).
C8_FindInPolygon ==
    last.op = "get_locations_in_perimeter"
    => LET poly == last.args.polygon_points
           found == last.ret
       IN  /\ last.raised = ""
           /\ StoreUnchanged
           /\ \A row \in Rows(last.pre_locations) :
                 row \in Rows(found) <=> is_point_in_polygon(PointOf(row), poly)
           /\ Rows(found) \subseteq Rows(last.pre_locations)
           /\ Cardinality(Rows(found)) = Len(found)
           /\ \A i, j \in 1 .. Len(found) :
                 i < j => Position(last.pre_locations, found[i])
                            < Position(last.pre_locations, found[j])
           /\ \A row \in Rows(last.pre_locations) :
                 /\ (poly = PolygonBoth /\ PointOf(row) \in {<<80, -148>>, <<82, -148>>})
                    => row \in Rows(found)
                 /\ (poly = PolygonOnlyA /\ PointOf(row) = <<80, -148>>)
                    => row \in Rows(found)
                 /\ (poly = PolygonOnlyA /\ PointOf(row) = <<82, -148>>)
                    => row \notin Rows(found)

\* with "A" at (40, -74) and "B" at (41, -74) stored, B scanned first, the
\* second polygon returned only A
C8_Witness ==
    /\ last.op = "get_locations_in_perimeter"
    /\ last.args.polygon_points = PolygonOnlyA
    /\ Len(locations) = 2
    /\ locations[1].name = "B" /\ PointOf(locations[1]) = <<82, -148>>
    /\ locations[2].name = "A" /\ PointOf(locations[2]) = <<80, -148>>
    /\ last.ret = <<locations[2]>>

\* points around the searched polygons
NearbyPoints == (77 .. 85) \X (-151 .. -145)

\* C10: for a polygon of 0, 1 or 2 points the evaluator returns False for
\* every point, and get_locations_in_perimeter with such a polygon raises
\* nothing and returns no Location.
C10_DegeneratePolygon ==
    (/\ last.op = "get_locations_in_perimeter"
     /\ Len(last.args.polygon_points) < 3)
    => /\ last.raised = ""
       /\ last.ret = <<>>
       /\ \A point \in NearbyPoints \cup {PointOf(row) : row \in Rows(locations)} :
             is_point_in_polygon(point, last.args.polygon_points) = FALSE

\* a search with two points, on the segment of which a stored Location lies,
\* returned nothing
C10_Witness ==
    /\ last.op = "get_locations_in_perimeter"
    /\ last.args.polygon_points = <<<<80, -150>>, <<80, -146>>>>
    /\ \E row \in Rows(locations) : PointOf(row) = <<80, -148>>
    /\ last.ret = <<>>

\* twice the signed area of the triangle a, b, c: positive when c lies to
\* the left of the line from a to b, zero when on it
Cross(a, b, c) ==
    (b[1] - a[1]) * (c[2] - a[2]) - (b[2] - a[2]) * (c[1] - a[1])

\* the vertex after the i-th, around the polygon
NextVertex(poly, i) == poly[(i % Len(poly)) + 1]

\* every vertex lies on the side `turn` (1: left, -1: right) of every edge,
\* or on its line
TurnsOneWay(poly, turn) ==
    \A i, k \in 1 .. Len(poly) :
        turn * Cross(poly[i], NextVertex(poly, i), poly[k]) >= 0

\* a simple convex polygon: at least 3 distinct vertices, not all on a line,
\* in clockwise or counter-clockwise order
SimpleConvex(poly) ==
    /\ Len(poly) >= 3
    /\ \A i, k \in 1 .. Len(poly) : i # k => poly[i] # poly[k]
    /\ \E i, k \in 1 .. Len(poly) : Cross(poly[i], NextVertex(poly, i), poly[k]) # 0
    /\ \E turn \in {1, -1} : TurnsOneWay(poly, turn)

\* the point lies on the inner side of every edge, off its line
StrictlyInside(point, poly) ==
    \E turn \in {1, -1} :
        /\ TurnsOneWay(poly, turn)
        /\ \A i \in 1 .. Len(poly) :
              turn * Cross(poly[i], NextVertex(poly, i), point) > 0

\* the point lies on the outer side of some edge, off its line
StrictlyOutside(point, poly) ==
    \E turn \in {1, -1} :
        /\ TurnsOneWay(poly, turn)
        /\ \E i \in 1 .. Len(poly) :
              turn * Cross(poly[i], NextVertex(poly, i), point) < 0

\* C9: for a simple convex polygon of at least 3 vertices, in either
\* orientation and from any first vertex, the evaluator returns True for
\* every point strictly inside and False for every point strictly outside.
C9_ConvexContainment ==
    (DOMAIN inside # {} /\ SimpleConvex(polygon))
    => \A point \in GeoPoints :
          /\ StrictlyInside(point, polygon) => inside[point] = TRUE
          /\ StrictlyOutside(point, polygon) => inside[point] = FALSE

\* the square (0,0), (0,10), (10,10), (10,0) was evaluated: (5,5) is inside
\* and (20,20) outside, by the evaluator and by the definition
C9_Witness ==
    /\ polygon = ExampleSquare
    /\ DOMAIN inside # {}
    /\ SimpleConvex(polygon)
    /\ StrictlyInside(<<5, 5>>, polygon) /\ inside[<<5, 5>>] = TRUE
    /\ StrictlyOutside(<<20, 20>>, polygon) /\ inside[<<20, 20>>] = FALSE

\* a (latitude, longitude) pair as (horizontal, vertical) coordinates, when
\* latitude is the vertical axis and when longitude is
LatitudeVertical(p) == <<p[2], p[1]>>

LongitudeVertical(p) == <<p[1], p[2]>>

\* the reference rule for one edge, on (horizontal, vertical) coordinates: the
\* ends straddle the point's vertical coordinate (lower end open, upper end
\* closed), and the point is at or before the edge at that height, i.e. not
\* to the right of the line from the lower end to the upper end
RefCrossing(p, a, b) ==
    LET lo == IF a[2] <= b[2] THEN a ELSE b
        hi == IF a[2] <= b[2] THEN b ELSE a
    IN  /\ lo[2] < p[2]
        /\ p[2] <= hi[2]
        /\ Cross(lo, hi, p) >= 0

\* the reference rule: the flag ends up set when an odd number of edges of
\* the closed loop are crossed
RefContains(p, poly) ==
    Cardinality({i \in 1 .. Len(poly) :
                    RefCrossing(p, poly[i], NextVertex(poly, i))}) % 2 = 1

\* the polygon and a point seen through a choice of axes
RefResult(Axes(_), point, poly) ==
    RefContains(Axes(point), [i \in 1 .. Len(poly) |-> Axes(poly[i])])

\* C16 as claimed: for every polygon of at least 3 vertices and every point,
\* points on the boundary included, the evaluator's result is that of the
\* reference rule with latitude (the first component) as the vertical axis.
C16_LatitudeIsVertical ==
    (DOMAIN inside # {} /\ Len(polygon) >= 3)
    => \A point \in GeoPoints :
          inside[point] = RefResult(LatitudeVertical, point, polygon)

\* C16 as amended: for every polygon of at least 3 vertices and every point,
\* points on the boundary included, the evaluator's result is that of the
\* reference rule with longitude (the second component) as the vertical axis
\* and latitude as the horizontal one.
C16_LongitudeIsVertical ==
    (DOMAIN inside # {} /\ Len(polygon) >= 3)
    => \A point \in GeoPoints :
          inside[point] = RefResult(LongitudeVertical, point, polygon)

\* a triangle was evaluated for which the two choices of axes disagree at a
\* point of its boundary, and the evaluator found that point inside
C16_Witness ==
    /\ DOMAIN inside # {}
    /\ SimpleConvex(polygon)
    /\ Len(polygon) = 3
    /\ \E point \in GeoPoints :
          /\ ~StrictlyInside(point, polygon)
          /\ ~StrictlyOutside(point, polygon)
          /\ inside[point] = TRUE
          /\ RefResult(LatitudeVertical, point, polygon) = FALSE

\* the ids of the rows of a table
IdsOf(table) == {r.id : r \in Rows(table)}

\* C14: whatever keys and values update_location is given, the Location it
\* updates keeps its id and no other Location's id changes; and
\* create_location assigns an id that no stored Location has and that the
\* sequence has not handed out before.
C14_IdNeverChanges ==
    /\ last.op = "update_location"
       => /\ IdsOf(locations) = IdsOf(last.pre_locations)
          /\ (last.raised = "" /\ last.ret # None)
             => last.ret[1].id = last.args.location_id
    /\ (last.op = "create_location" /\ last.raised = "")
       => /\ last.ret[1].id \notin IdsOf(last.pre_locations)
          /\ last.ret[1].id = nextId - 1

Mutations == {"create_location", "update_location", "delete_location"}

Reads == {"get_location_by_id", "get_location_by_name", "list_locations",
          "get_locations_in_perimeter"}

\* what a read returns on the committed rows
Observed(call, rows) ==
    CASE call.op = "get_location_by_id" -> Scalar(SelectById(rows, call.args.location_id))
      [] call.op = "get_location_by_name" -> Scalar(SelectByName(rows, Some(call.args.name)))
      [] call.op = "list_locations" -> rows
      [] call.op = "get_locations_in_perimeter" ->
            FilteredLocations(rows, call.args.polygon_points)

\* C11: for a repository that owns its session (the rollback of a supplied
\* one is its caller's), a create_location, update_location or
\* delete_location that raises (ValueError, or an error of the store at
\* commit) leaves the stored rows as they were, and the reads made through
\* the repository afterwards return what those rows hold instead of raising;
\* a call that succeeds has its whole effect in the store.
C11_AtomicPerCall ==
    own_session
    => /\ (last.op \in Mutations /\ last.raised # "") => StoreUnchanged
       /\ last.op \in Reads
          => (last.raised = "" /\ last.ret = Observed(last, locations))
       /\ (last.op = "create_location" /\ last.raised = "")
          => locations = Append(last.pre_locations, last.ret[1])
       /\ (last.op = "update_location" /\ last.raised = "" /\ last.ret # None)
          => WithId(locations, last.args.location_id) = {last.ret[1]}
       /\ (last.op = "delete_location" /\ last.raised = "" /\ last.ret = TRUE)
          => WithId(locations, last.args.location_id) = {}

\* C12: a repository built with a session of its caller never calls commit,
\* rollback or close on that session, in any operation or on entering or
\* leaving the scoped block.
C12_CallerOwnsTransaction ==
    ~own_session
    => \A i \in 1 .. Len(calls) : calls[i].call \notin {"commit", "rollback", "close"}

\* C13: for a repository that owns its session: it asks for a session only
\* when it holds none, so no session it dropped is open; whenever the caller
\* is outside the scoped block and between two calls, every session acquired
\* has been closed; and each close follows a commit or a rollback.
C13_SessionLifecycle ==
    own_session
    => /\ \A i \in 1 .. Len(calls) :
             calls[i].call = "create_session" => calls[i].holding = None
       /\ \A k \in open : held = Some(k)
       /\ (~in_block /\ last = Idle) => open = {}
       /\ \A i \in 1 .. Len(calls) :
             calls[i].call = "close"
             => (i > 1 /\ calls[i - 1].call \in {"commit", "rollback"})

\* the concurrent calls that have ended
Ended == {p \in Procs : creating[p].pc = "done"}

\* C15: of two create_location calls with the same name that run at the same
\* time on sessions of their own, in every order of their steps: at most one
\* returns a Location, at most one row with the name is stored, a call that
\* returns has its row stored, and the other call raises: ValueError when
\* its check saw the committed row, an error of the store otherwise.
C15_ConcurrentCreates ==
    (DOMAIN creating = Procs /\ creating[1].name = creating[2].name)
    => /\ Cardinality(WithName(locations, creating[1].name)) <= 1
       /\ Cardinality({p \in Ended : creating[p].raised = ""}) <= 1
       /\ \A p \in Ended :
             LET call == creating[p]
             IN  IF call.raised = ""
                 THEN /\ call.ret # None
                      /\ call.ret[1].name = call.name
                      /\ call.ret[1] \in Rows(locations)
                 ELSE /\ call.ret = None
                      /\ call.raised =
                            IF call.existing # None THEN "ValueError" ELSE "IntegrityError"
       /\ Ended = Procs => \E p \in Procs : creating[p].raised # ""

\* both calls passed the check before either committed; one returned its
\* Location and the other, having waited at the index, got the store's error
C15_Witness ==
    /\ DOMAIN creating = Procs
    /\ creating[1].name = creating[2].name
    /\ Ended = Procs
    /\ \E p \in Procs : creating[p].raised = "" /\ creating[p].ret # None
    /\ \E p \in Procs : creating[p].raised = "IntegrityError"
    /\ Len(locations) = 1

====
